---- MODULE Spec2Model ----
(***************************************************************************)
(* A model of swarm/util.py: the streaming delta merger (merge_fields,     *)
(* merge_chunk), the docstring parser (parse_docstring) and the schema     *)
(* builder (function_to_json).                                             *)
(*                                                                         *)
(* Python values are tagged records, all of the same shape:                *)
(*   t      "str" | "num" | "bool" | "null" | "map" | "list"               *)
(*   s      the characters of a str, a tuple of one-character strings      *)
(*   n      the value of a num or a bool (0 / 1)                           *)
(*   items  a dict's entries [k, v] in insertion order, or a list's items  *)
(* A Python call's outcome is a record holding the (possibly partly        *)
(* mutated) object and err, the exception that ended the call, or "none".  *)
(***************************************************************************)
EXTENDS Integers, Sequences, FiniteSets, TLC

VARIABLES
    final_response,   \* merge_chunk: the accumulator of the streaming session
    acc0,             \* the accumulator as the caller set it up
    prev,             \* the accumulator before the last merge_chunk call
    delta,            \* the delta handed to the last merge_chunk call
    merr,             \* the exception the last merge_chunk call raised, or "none"
    hist,             \* the deltas handed to merge_chunk so far, in call order
    docstring,        \* parse_docstring: its argument
    lines,            \* docstring.split("\n")
    li,               \* the loop's position in lines (1-based), Len(lines)+1 after it
    description,      \* the description lines collected so far
    arg_descriptions, \* the dict of parameter descriptions, entries in order
    current_param,    \* None, or the name of the parameter started last
    in_args_section,  \* the flag
    dpc,              \* "loop" inside the for loop, "done" after the return
    parsed,           \* the returned tuple, as [summary, args]
    func,             \* function_to_json: the callable it is given
    spc,              \* "call" before the call, "done" after it
    built             \* what the call produced: the schema or the exception

mvars == <<final_response, acc0, prev, delta, merr, hist>>
dvars == <<docstring, lines, li, description, arg_descriptions, current_param,
           in_args_section, dpc, parsed>>
svars == <<func, spc, built>>
vars == <<mvars, dvars, svars>>

----------------------------------------------------------------------------
(* Python values *)

Str(s) == [t |-> "str", s |-> s, n |-> 0, items |-> <<>>]
Num(n) == [t |-> "num", s |-> <<>>, n |-> n, items |-> <<>>]
Bool(b) == [t |-> "bool", s |-> <<>>, n |-> IF b THEN 1 ELSE 0, items |-> <<>>]
Null == [t |-> "null", s |-> <<>>, n |-> 0, items |-> <<>>]
Map(e) == [t |-> "map", s |-> <<>>, n |-> 0, items |-> e]
List(e) == [t |-> "list", s |-> <<>>, n |-> 0, items |-> e]
E(k, v) == [k |-> k, v |-> v]

Ok(v) == [target |-> v, err |-> "none"]
Raise(v, e) == [target |-> v, err |-> e]

HasKey(m, key) == \E j \in 1..Len(m.items) : m.items[j].k = key
KeyPos(m, key) == CHOOSE j \in 1..Len(m.items) : m.items[j].k = key
ValueAt(m, key) == m.items[KeyPos(m, key)].v

\* target[key] for a str key: only a dict that holds the key answers
GetItem(target, key) ==
    IF target.t = "map"
    THEN IF HasKey(target, key) THEN Ok(ValueAt(target, key))
         ELSE Raise(Null, "KeyError")
    ELSE Raise(Null, "TypeError")

\* target[key] = v on a dict that holds the key: the entry keeps its place
SetItem(target, key, v) ==
    Map([j \in 1..Len(target.items) |->
            IF target.items[j].k = key THEN E(key, v) ELSE target.items[j]])

\* dict.get(key): None when the key is absent
DictGet(m, key) == IF HasKey(m, key) THEN ValueAt(m, key) ELSE Null

\* dict.pop(key, None): the dict without the key
PopKey(m, key) ==
    Map(SelectSeq(m.items, LAMBDA e : e.k # key))

\* seq[index] of a list: Python counts a negative index from the end
PyIndex(len, index) ==
    IF index >= 0 THEN (IF index < len THEN index + 1 ELSE 0)
    ELSE (IF len + index >= 0 THEN len + index + 1 ELSE 0)

\* bool(v)
Truthy(v) ==
    CASE v.t = "null" -> FALSE
      [] v.t = "str" -> Len(v.s) > 0
      [] v.t \in {"num", "bool"} -> v.n # 0
      [] OTHER -> Len(v.items) > 0

\* an append that puts the new text first
IAddInFront(old, value) ==
    CASE old.t = "str" -> Ok(Str(value.s \o old.s))
      [] old.t = "list" ->
            Ok(List([j \in 1..Len(value.s) |-> Str(<<value.s[j]>>)] \o old.items))
      [] OTHER -> Raise(old, "TypeError")

\* old += value for a str value: str appends, list extends by the characters
IAdd(old, value) ==
    CASE old.t = "str" -> Ok(Str(old.s \o value.s))
      [] old.t = "list" ->
            Ok(List(old.items \o [j \in 1..Len(value.s) |-> Str(<<value.s[j]>>)]))
      [] OTHER -> Raise(old, "TypeError")

----------------------------------------------------------------------------
(* merge_fields and merge_chunk *)

RECURSIVE merge_fields(_, _)

\* a loop body that also stores every other value: target[key] = value
MergeItemOverwriting(target, key, value) ==
    LET got == GetItem(target, key)
    IN  IF value.t = "str"
        THEN IF got.err # "none" THEN Raise(target, got.err)
             ELSE LET sum == IAdd(got.target, value)
                  IN  IF sum.err # "none" THEN Raise(target, sum.err)
                      ELSE Ok(SetItem(target, key, sum.target))
        ELSE IF value.t = "map"
        THEN IF got.err # "none" THEN Raise(target, got.err)
             ELSE LET sub == merge_fields(got.target, value)
                  IN  Raise(SetItem(target, key, sub.target), sub.err)
        ELSE IF target.t # "map" THEN Raise(target, "TypeError")
        ELSE IF HasKey(target, key) THEN Ok(SetItem(target, key, value))
        ELSE Ok(Map(Append(target.items, E(key, value))))

\* lines 16-19, the loop body for one item of source: a value that is neither
\* a str nor a dict falls through both tests and nothing happens
MergeItem(target, key, value) ==
    LET got == GetItem(target, key)
    IN  IF value.t = "str"
        THEN IF got.err # "none" THEN Raise(target, got.err)
             ELSE LET sum == IAdd(got.target, value)
                  IN  IF sum.err # "none" THEN Raise(target, sum.err)
                      ELSE Ok(SetItem(target, key, sum.target))
        ELSE IF value.t = "map"
        THEN IF got.err # "none" THEN Raise(target, got.err)
             ELSE LET sub == merge_fields(got.target, value)
                  IN  Raise(SetItem(target, key, sub.target), sub.err)
        ELSE Ok(target)

\* line 15, the loop of merge_fields from the i-th item of source on; an
\* exception leaves the loop with what was merged before it
RECURSIVE MergeItems(_, _, _)
MergeItems(target, items, i) ==
    IF i > Len(items) THEN Ok(target)
    ELSE LET one == MergeItem(target, items[i].k, items[i].v)
         IN  IF one.err # "none" THEN one
             ELSE MergeItems(one.target, items, i + 1)

merge_fields(target, source) == MergeItems(target, source.items, 1)

\* tool_calls[-1] in place of tool_calls[0]
LastOf(tool_calls) ==
    CASE tool_calls.t = "list" -> Ok(tool_calls.items[Len(tool_calls.items)])
      [] tool_calls.t = "str" -> Ok(Str(<<tool_calls.s[Len(tool_calls.s)]>>))
      [] tool_calls.t = "map" -> Raise(Null, "KeyError")
      [] OTHER -> Raise(Null, "TypeError")

\* tool_calls[0] of a truthy tool_calls value
FirstOf(tool_calls) ==
    CASE tool_calls.t = "list" -> Ok(tool_calls.items[1])
      [] tool_calls.t = "str" -> Ok(Str(<<tool_calls.s[1]>>))
      [] tool_calls.t = "map" -> Raise(Null, "KeyError")
      [] OTHER -> Raise(Null, "TypeError")

\* element.pop("index")
PopIndex(element) ==
    CASE element.t = "map" ->
            IF HasKey(element, "index") THEN Ok(ValueAt(element, "index"))
            ELSE Raise(Null, "KeyError")
      [] element.t = "list" -> Raise(Null, "TypeError")
      [] OTHER -> Raise(Null, "AttributeError")

\* the position (1-based) container[index] names, 0 with the exception
Slot(container, index) ==
    CASE container.t = "list" /\ index.t \in {"num", "bool"} ->
            LET p == PyIndex(Len(container.items), index.n)
            IN  IF p = 0 THEN Raise(0, "IndexError") ELSE Ok(p)
      [] container.t = "str" /\ index.t \in {"num", "bool"} ->
            LET p == PyIndex(Len(container.s), index.n)
            IN  IF p = 0 THEN Raise(0, "IndexError") ELSE Ok(p)
      [] container.t = "map" -> Raise(0, "KeyError")
      [] OTHER -> Raise(0, "TypeError")

\* container[p] and the container after the in-place merge of its p-th item
\* (a str answers with a fresh one-character str, which the merge cannot change)
ItemAt(container, p) ==
    IF container.t = "list" THEN container.items[p] ELSE Str(<<container.s[p]>>)

StoreAt(container, p, v) ==
    IF container.t = "list"
    THEN List([j \in 1..Len(container.items) |->
                 IF j = p THEN v ELSE container.items[j]])
    ELSE container

\* lines 26-29: the tool_calls special case, on the accumulator as merged so far
MergeToolCall(response, tool_calls) ==
    IF ~Truthy(tool_calls) THEN Ok(response)
    ELSE IF tool_calls.t \in {"num", "bool"} THEN Raise(response, "TypeError")
    ELSE
    LET first == FirstOf(tool_calls)
        index == PopIndex(first.target)
        list == GetItem(response, "tool_calls")
        slot == Slot(list.target, index.target)
        merged == merge_fields(ItemAt(list.target, slot.target),
                               PopKey(first.target, "index"))
    IN  IF first.err # "none" THEN Raise(response, first.err)
        ELSE IF index.err # "none" THEN Raise(response, index.err)
        ELSE IF list.err # "none" THEN Raise(response, list.err)
        ELSE IF slot.err # "none" THEN Raise(response, slot.err)
        ELSE Raise(SetItem(response, "tool_calls",
                           StoreAt(list.target, slot.target, merged.target)),
                   merged.err)

\* merge_chunk without line 23
merge_chunk_keeping_role(response, d) ==
    LET fields == merge_fields(response, d)
    IN  IF fields.err # "none" THEN fields
        ELSE MergeToolCall(fields.target, DictGet(d, "tool_calls"))

\* lines 22-29
merge_chunk(response, d) ==
    LET rest == PopKey(d, "role")
        fields == merge_fields(response, rest)
    IN  IF fields.err # "none" THEN fields
        ELSE MergeToolCall(fields.target, DictGet(rest, "tool_calls"))

----------------------------------------------------------------------------
(* The streaming session: one accumulator, merge_chunk called per chunk *)

MaxMerges == 3

Function(name, arguments) ==
    Map(<<E("name", Str(name)), E("arguments", Str(arguments))>>)

ToolCall(id, name, arguments) ==
    Map(<<E("id", Str(id)), E("function", Function(name, arguments))>>)

\* the accumulators a caller sets up before the first chunk
Accumulators ==
    << Map(<<E("content", Str(<<"H", "e", "l">>)),
             E("tool_calls", List(<<Map(<<E("name", Str(<<>>))>>)>>))>>),
       Map(<<E("content", Str(<<>>)),
             E("sender", Str(<<"A">>)),
             E("n", Num(7)),
             E("flag", Bool(TRUE)),
             E("function_call", Null),
             E("tool_calls", List(<<ToolCall(<<>>, <<>>, <<>>),
                                    ToolCall(<<>>, <<>>, <<>>)>>))>>),
       Map(<<E("role", Str(<<"r">>)),
             E("content", Str(<<>>)),
             E("n", Num(0)),
             E("function_call", Function(<<>>, <<>>)),
             E("tool_calls", List(<<>>))>>) >>

\* a tool-call fragment: index, then the fields it carries
Fragment(index, fields) == Map(<<E("index", index)>> \o fields)

\* the chunks a stream may deliver
Deltas ==
    << \* string fragments, with and without a role
       Map(<<E("content", Str(<<"l", "o">>)),
             E("tool_calls", List(<<Fragment(Num(0),
                                      <<E("name", Str(<<"a", "d", "d">>))>>)>>))>>),
       Map(<<E("role", Str(<<"a">>)), E("content", Str(<<"a">>))>>),
       Map(<<E("content", Str(<<"b">>))>>),
       Map(<<E("content", Str(<<"a", "b">>))>>),
       Map(<<E("role", Str(<<"u">>))>>),
       \* values the generic path leaves alone
       Map(<<E("content", Null), E("n", Num(9)), E("flag", Bool(FALSE)),
             E("function_call", Null), E("extra", Num(5)),
             E("seen", List(<<Num(1)>>)), E("tool_calls", Null)>>),
       Map(<<E("tool_calls", List(<<>>))>>),
       \* nested mappings
       Map(<<E("function_call", Map(<<E("arguments", Str(<<"x">>))>>))>>),
       Map(<<E("tool_calls", List(<<Fragment(Num(0),
                <<E("function", Map(<<E("arguments", Str(<<"y">>))>>))>>)>>))>>),
       Map(<<E("tool_calls", List(<<Fragment(Num(1),
                <<E("id", Str(<<"c">>)), E("n", Num(3)),
                  E("function", Map(<<E("name", Str(<<"f">>)),
                                      E("arguments", Str(<<"z">>))>>))>>)>>))>>),
       \* two fragments in one chunk
       Map(<<E("tool_calls", List(<<
                Fragment(Num(0), <<E("id", Str(<<"p">>))>>),
                Fragment(Num(1), <<E("id", Str(<<"q">>))>>)>>))>>),
       \* indexes below zero and past the end
       Map(<<E("tool_calls", List(<<Fragment(Num(-1), <<E("id", Str(<<"m">>))>>)>>))>>),
       Map(<<E("tool_calls", List(<<Fragment(Num(-1), <<E("name", Str(<<"m">>))>>)>>))>>),
       Map(<<E("tool_calls", List(<<Fragment(Num(2), <<E("id", Str(<<"e">>))>>)>>))>>),
       Map(<<E("tool_calls", List(<<Fragment(Num(-3), <<E("id", Str(<<"e">>))>>)>>))>>),
       \* strings for keys the accumulator lacks
       Map(<<E("missing", Str(<<"x">>))>>),
       Map(<<E("content", Str(<<"c">>)), E("missing", Str(<<"x">>))>>),
       Map(<<E("tool_calls", List(<<Fragment(Num(0),
                <<E("function", Map(<<E("bogus", Str(<<"x">>))>>))>>)>>))>>),
       \* a string onto a number, a fragment without an index
       Map(<<E("n", Str(<<"s">>))>>),
       Map(<<E("tool_calls", List(<<Map(<<E("id", Str(<<"c">>))>>)>>))>> ) >>

MergeInit ==
    /\ \E a \in 1..Len(Accumulators) :
          /\ final_response = Accumulators[a]
          /\ acc0 = Accumulators[a]
          /\ prev = Accumulators[a]
    /\ delta = Map(<<>>)
    /\ merr = "none"
    /\ hist = <<>>

\* the session's reader hands the next chunk to merge_chunk; an exception
\* propagates to the caller and ends the session
MergeChunk(d) ==
    /\ merr = "none"
    /\ Len(hist) < MaxMerges
    /\ LET out == merge_chunk(final_response, Deltas[d])
       IN  /\ final_response' = out.target
           /\ merr' = out.err
    /\ prev' = final_response
    /\ delta' = Deltas[d]
    /\ hist' = Append(hist, d)
    /\ UNCHANGED <<acc0, dvars, svars>>

----------------------------------------------------------------------------
(* Python str operations, on tuples of one-character strings *)

Whitespace == {" ", "\t", "\n", "\r", "\f"}
Uppers == <<"A", "B", "C", "D", "E", "F", "G", "H", "I", "J", "K", "L", "M",
            "N", "O", "P", "Q", "R", "S", "T", "U", "V", "W", "X", "Y", "Z">>
Lowers == <<"a", "b", "c", "d", "e", "f", "g", "h", "i", "j", "k", "l", "m",
            "n", "o", "p", "q", "r", "s", "t", "u", "v", "w", "x", "y", "z">>

LowerChar(c) ==
    IF \E j \in 1..Len(Uppers) : Uppers[j] = c
    THEN Lowers[CHOOSE j \in 1..Len(Uppers) : Uppers[j] = c]
    ELSE c

\* s.lower()
Lower(s) == [j \in 1..Len(s) |-> LowerChar(s[j])]

\* s.strip()
RECURSIVE LStrip(_)
LStrip(s) ==
    IF s # <<>> /\ Head(s) \in Whitespace THEN LStrip(Tail(s)) ELSE s

RECURSIVE RStrip(_)
RStrip(s) ==
    IF s # <<>> /\ s[Len(s)] \in Whitespace
    THEN RStrip(SubSeq(s, 1, Len(s) - 1)) ELSE s

Strip(s) == RStrip(LStrip(s))

\* s.startswith(prefix)
StartsWith(s, prefix) ==
    Len(s) >= Len(prefix) /\ SubSeq(s, 1, Len(prefix)) = prefix

\* sep in s, for a one-character sep
Contains(s, sep) == \E j \in 1..Len(s) : s[j] = sep

\* where sep first stands in s
FirstPos(s, sep) ==
    CHOOSE j \in 1..Len(s) : s[j] = sep /\ \A h \in 1..(j - 1) : s[h] # sep

\* s.split(sep): always at least one piece
RECURSIVE Split(_, _)
Split(s, sep) ==
    IF ~Contains(s, sep) THEN <<s>>
    ELSE <<SubSeq(s, 1, FirstPos(s, sep) - 1)>>
            \o Split(SubSeq(s, FirstPos(s, sep) + 1, Len(s)), sep)

\* s.split(sep, 1) of an s that holds sep
Split1(s, sep) ==
    <<SubSeq(s, 1, FirstPos(s, sep) - 1), SubSeq(s, FirstPos(s, sep) + 1, Len(s))>>

\* sep.join(parts)
RECURSIVE Join(_, _)
Join(parts, sep) ==
    IF parts = <<>> THEN <<>>
    ELSE IF Len(parts) = 1 THEN parts[1]
    ELSE parts[1] \o sep \o Join(Tail(parts), sep)

ArgsMarker == <<"a", "r", "g", "s", ":">>

----------------------------------------------------------------------------
(* parse_docstring *)

\* arg_descriptions[name] = text: a new key goes last, an old one keeps its place
DictSet(entries, name, text) ==
    IF \E j \in 1..Len(entries) : entries[j].k = name
    THEN [j \in 1..Len(entries) |->
            IF entries[j].k = name THEN E(name, text) ELSE entries[j]]
    ELSE Append(entries, E(name, text))

DictHas(entries, name) == \E j \in 1..Len(entries) : entries[j].k = name
DictAt(entries, name) ==
    entries[CHOOSE j \in 1..Len(entries) : entries[j].k = name].v

\* the locals of parse_docstring before the loop
ParseStart ==
    [description |-> <<>>, arg_descriptions |-> <<>>,
     current_param |-> Null, in_args_section |-> FALSE]

\* line.lower().startswith("args:")
IsMarker(line) == StartsWith(Lower(line), ArgsMarker)

\* one pass of the loop body, lines 125-145, on the locals st
ParseLine(st, raw) ==
    LET line == Strip(raw)
    IN  IF IsMarker(line)
        THEN [st EXCEPT !.in_args_section = TRUE]
        ELSE IF ~st.in_args_section
        THEN [st EXCEPT !.description = Append(@, line)]
        ELSE IF Contains(line, ":")
        THEN LET parts == Split1(line, ":")
             IN  [st EXCEPT !.current_param = Str(Strip(parts[1])),
                            !.arg_descriptions =
                                DictSet(@, Strip(parts[1]), Strip(parts[2]))]
        ELSE IF Truthy(st.current_param) /\ line # <<>>
        THEN [st EXCEPT !.arg_descriptions =
                 DictSet(@, st.current_param.s,
                         DictAt(@, st.current_param.s) \o <<" ">> \o line)]
        ELSE st

\* lines 147-151: the returned tuple
ParseReturn(st) ==
    [summary |-> Strip(Join(st.description, <<" ">>)),
     args |-> IF st.in_args_section THEN st.arg_descriptions ELSE <<>>]

RECURSIVE ParseLoop(_, _, _)
ParseLoop(st, ls, i) ==
    IF i > Len(ls) THEN st ELSE ParseLoop(ParseLine(st, ls[i]), ls, i + 1)

parse_docstring(doc) ==
    ParseReturn(ParseLoop(ParseStart, Split(doc, "\n"), 1))

----------------------------------------------------------------------------
(* parse_docstring, statement by statement *)

MaxLines == 3

\* the lines a docstring is written from
RawLines ==
    << <<>>,
       <<"A", "r", "g", "s", ":">>,
       <<" ", "A", "R", "G", "S", ":", " ">>,
       <<"a", "r", "g", "s", ":", " ", "v">>,
       <<"S", "u", "m", ".">>,
       <<" ", " ", "x", ":", " ", "d", ".">>,
       <<" ", " ", " ", "c", " ">>,
       <<"y", ":", "e", ":", "f">>,
       <<":", " ", "z">>,
       <<"x", ":", " ", "g">> >>

\* the docstring of the documented scenario
ExampleDoc ==
    Join(<< <<"S", "u", "m", "m", "a", "r", "y", " ", "l", "i", "n", "e", ".">>,
            <<>>,
            <<"A", "r", "g", "s", ":">>,
            <<" ", " ", " ", " ", "x", ":", " ", "d", "e", "s", "c", ".">>,
            <<" ", " ", " ", " ", " ", " ", " ", " ", "c", "o", "n", "t", "i", "n", "u", "e", "d", ".">>,
            <<" ", " ", " ", " ", "y", ":", " ", "o", "t", "h", "e", "r", ".">> >>,
         <<"\n">>)

DocIdle ==
    /\ docstring = <<>> /\ lines = <<>> /\ li = 0
    /\ description = <<>> /\ arg_descriptions = <<>>
    /\ current_param = Null /\ in_args_section = FALSE
    /\ dpc = "idle" /\ parsed = ParseReturn(ParseStart)

DocInit ==
    /\ \/ docstring = ExampleDoc
       \/ \E n \in 0..MaxLines : \E f \in [1..n -> 1..Len(RawLines)] :
             docstring = Join([j \in 1..n |-> RawLines[f[j]]], <<"\n">>)
    /\ lines = <<>> /\ li = 0
    /\ description = ParseStart.description
    /\ arg_descriptions = ParseStart.arg_descriptions
    /\ current_param = ParseStart.current_param
    /\ in_args_section = ParseStart.in_args_section
    /\ dpc = "start" /\ parsed = ParseReturn(ParseStart)

\* line 122
DocSplit ==
    /\ dpc = "start"
    /\ lines' = Split(docstring, "\n")
    /\ li' = 1
    /\ dpc' = "loop"
    /\ UNCHANGED <<docstring, description, arg_descriptions, current_param,
                   in_args_section, parsed, mvars, svars>>

\* lines 124-145, one line of the docstring
DocLine ==
    /\ dpc = "loop" /\ li <= Len(lines)
    /\ LET st == ParseLine([description |-> description,
                            arg_descriptions |-> arg_descriptions,
                            current_param |-> current_param,
                            in_args_section |-> in_args_section], lines[li])
       IN  /\ description' = st.description
           /\ arg_descriptions' = st.arg_descriptions
           /\ current_param' = st.current_param
           /\ in_args_section' = st.in_args_section
    /\ li' = li + 1
    /\ UNCHANGED <<docstring, lines, dpc, parsed, mvars, svars>>

\* lines 147-151
DocReturn ==
    /\ dpc = "loop" /\ li > Len(lines)
    /\ parsed' = ParseReturn([description |-> description,
                              arg_descriptions |-> arg_descriptions,
                              current_param |-> current_param,
                              in_args_section |-> in_args_section])
    /\ dpc' = "done"
    /\ UNCHANGED <<docstring, lines, li, description, arg_descriptions,
                   current_param, in_args_section, mvars, svars>>

----------------------------------------------------------------------------
(* function_to_json *)

\* What reflection tells about a callable:
\*   name    func.__name__
\*   sig     whether inspect.signature(func) answers (FALSE: it raises ValueError)
\*   doc     inspect.getdoc(func): None or a str
\*   params  signature.parameters in order, each [name, ann, default]:
\*           ann is Absent, Unresolved (a forward reference that names nothing)
\*           or the type object the annotation resolves to; default tells
\*           whether param.default is something other than Parameter.empty
Absent == "(absent)"
Unresolved == "'Nope'"
AnyType == "typing.Any"

\* lines 44-52
type_map ==
    << E("str", "string"), E("int", "integer"), E("float", "number"),
       E("bool", "boolean"), E("list", "array"), E("dict", "object"),
       E("NoneType", "null") >>

\* type objects outside the table: typing.Any, a user class, a user class that
\* is itself called Any, a parameterised list, and a union written int | None
OtherTypes == {AnyType, "Color", "models.Any", "list[int]", "int | None"}

Types == {type_map[j].k : j \in 1..Len(type_map)} \cup OtherTypes

\* param_type.__name__; a types.UnionType has none
TypeName(type) ==
    CASE type = AnyType -> Ok("Any")
      [] type = "models.Any" -> Ok("Any")
      [] type = "list[int]" -> Ok("list")
      [] type = "int | None" -> Raise("", "AttributeError")
      [] OTHER -> Ok(type)

\* typing.get_type_hints(func): the resolved annotations of the annotated
\* parameters, or the NameError of the first forward reference that names nothing
get_type_hints(f) ==
    IF \E j \in 1..Len(f.params) : f.params[j].ann = Unresolved
    THEN Raise(<<>>, "NameError")
    ELSE Ok(SelectSeq([j \in 1..Len(f.params) |->
                          E(f.params[j].name, f.params[j].ann)],
                      LAMBDA e : e.v # Absent))

\* lines 73-74 without lines 75-76
ParamTypeStrAsNamed(type_hints, param_name) ==
    LET param_type == IF DictHas(type_hints, param_name)
                      THEN DictAt(type_hints, param_name) ELSE AnyType
        name == TypeName(param_type)
    IN  IF name.err # "none" THEN name
        ELSE IF DictHas(type_map, param_type) THEN Ok(DictAt(type_map, param_type))
        ELSE name

\* lines 73-76: the default of type_map.get is evaluated before the lookup
ParamTypeStr(type_hints, param_name) ==
    LET param_type == IF DictHas(type_hints, param_name)
                      THEN DictAt(type_hints, param_name) ELSE AnyType
        name == TypeName(param_type)
        param_type_str == IF DictHas(type_map, param_type)
                          THEN DictAt(type_map, param_type) ELSE name.target
    IN  IF name.err # "none" THEN name
        ELSE IF param_type_str = "Any" THEN Ok("string")
        ELSE Ok(param_type_str)

\* lines 82-86
ParamInfo(param_type_str, arg_descs, param_name) ==
    <<E("type", param_type_str)>>
        \o (IF arg_descs # <<>> /\ DictHas(arg_descs, param_name)
            THEN <<E("description", DictAt(arg_descs, param_name))>>
            ELSE <<>>)

\* lines 90-91 without the test of the default
RequiredAlways(required, param) == Append(required, param.name)

\* lines 90-91
Required(required, param) ==
    IF ~param.default THEN Append(required, param.name) ELSE required

\* the loop of lines 71-91 from the i-th parameter on
RECURSIVE ParamLoop(_, _, _, _, _, _)
ParamLoop(params, type_hints, arg_descs, parameters, required, i) ==
    IF i > Len(params)
    THEN Ok([properties |-> parameters, required |-> required])
    ELSE LET type == ParamTypeStr(type_hints, params[i].name)
         IN  IF type.err # "none" THEN Raise(<<>>, type.err)
             ELSE ParamLoop(params, type_hints, arg_descs,
                            DictSet(parameters, params[i].name,
                                    ParamInfo(type.target, arg_descs, params[i].name)),
                            Required(required, params[i]), i + 1)

\* an exception leaving function_to_json; callable and param tell whether its
\* message holds func.__name__ and the name of a parameter
Failure(exc, callable, param) ==
    [err |-> exc, names_callable |-> callable, names_param |-> param,
     schema |-> <<>>]

function_to_json(f) ==
    LET doc == parse_docstring(IF Truthy(f.doc) THEN f.doc.s ELSE <<>>)
        type_hints == get_type_hints(f)
        loop == ParamLoop(f.params, type_hints.target, doc.args, <<>>, <<>>, 1)
    IN  IF ~f.sig THEN Failure("ValueError", TRUE, FALSE)
        ELSE IF type_hints.err # "none" THEN Failure(type_hints.err, FALSE, FALSE)
        ELSE IF loop.err # "none" THEN Failure(loop.err, FALSE, FALSE)
        ELSE [err |-> "none", names_callable |-> FALSE, names_param |-> FALSE,
              schema |->
                [type |-> "function",
                 function |->
                   [name |-> f.name,
                    description |-> doc.summary,
                    parameters |->
                      [type |-> "object",
                       properties |-> loop.target.properties,
                       required |-> loop.target.required]]]]

----------------------------------------------------------------------------
(* The callables function_to_json is given *)

MaxParams == 2

ParamNames == << <<"x">>, <<"y">>, <<"z">>, <<"w">>, <<"v">> >>

Annotations == {Absent, Unresolved} \cup Types

Docs == << Null, Str(ExampleDoc), Str(<<"S", "u", "m", ".">>) >>

SchemaIdle ==
    /\ func = [name |-> "f", sig |-> FALSE, doc |-> Null, params |-> <<>>]
    /\ spc = "idle"
    /\ built = Failure("none", FALSE, FALSE)

SchemaInit ==
    /\ \E d \in 1..Len(Docs) :
          \/ func = [name |-> "f", sig |-> FALSE, doc |-> Docs[d], params |-> <<>>]
          \/ \E n \in 0..MaxParams :
                \E a \in [1..n -> Annotations], dflt \in [1..n -> BOOLEAN] :
                   func = [name |-> "f", sig |-> TRUE, doc |-> Docs[d],
                           params |-> [j \in 1..n |->
                                         [name |-> ParamNames[j], ann |-> a[j],
                                          default |-> dflt[j]]]]
    /\ spc = "call"
    /\ built = Failure("none", FALSE, FALSE)

Build ==
    /\ spc = "call"
    /\ built' = function_to_json(func)
    /\ spc' = "done"
    /\ UNCHANGED <<func, mvars, dvars>>

----------------------------------------------------------------------------
(* The three specifications *)

MergeIdle ==
    /\ final_response = Map(<<>>) /\ acc0 = Map(<<>>) /\ prev = Map(<<>>)
    /\ delta = Map(<<>>) /\ merr = "none" /\ hist = <<>>

\* a streaming session
Init == MergeInit /\ DocIdle /\ SchemaIdle
Next == \E d \in 1..Len(Deltas) : MergeChunk(d)
Spec == Init /\ [][Next]_vars

\* a call of parse_docstring
DocSpecInit == DocInit /\ MergeIdle /\ SchemaIdle
DocSpecNext == DocSplit \/ DocLine \/ DocReturn
DocSpec == DocSpecInit /\ [][DocSpecNext]_vars

\* a call of function_to_json
SchemaSpecInit == SchemaInit /\ MergeIdle /\ DocIdle
SchemaSpecNext == Build
SchemaSpec == SchemaSpecInit /\ [][SchemaSpecNext]_vars

----------------------------------------------------------------------------
(* Properties of the streaming session (Spec) *)

\* the value a path of keys leads to through nested dicts, None when it leads nowhere
RECURSIVE Descend(_, _)
Descend(v, path) ==
    IF path = <<>> THEN v
    ELSE IF v.t = "map" /\ HasKey(v, Head(path))
    THEN Descend(ValueAt(v, Head(path)), Tail(path))
    ELSE Null

HasText(v, path) == Descend(v, path).t = "str"
Text(v, path) == Descend(v, path).s

\* the items of v["tool_calls"] when that is a list
ToolCalls(v) ==
    IF Descend(v, <<"tool_calls">>).t = "list"
    THEN Descend(v, <<"tool_calls">>).items ELSE <<>>

\* the first tool-call fragment of a delta, None when it has none
FirstFragment(d) == IF ToolCalls(d) # <<>> THEN ToolCalls(d)[1] ELSE Null

\* its index, when it is a number
HasIndex(d) == Descend(FirstFragment(d), <<"index">>).t = "num"
IndexOf(d) == Descend(FirstFragment(d), <<"index">>).n

Keys(v) == {v.items[j].k : j \in 1..Len(v.items)}

\* the string fields the session's accumulators and deltas use
TopPaths ==
    {<<"content">>, <<"sender">>, <<"function_call", "name">>,
     <<"function_call", "arguments">>}
ElemPaths ==
    {<<"id">>, <<"name">>, <<"function", "name">>, <<"function", "arguments">>}

\* the fragments the deltas of h carry for the top-level field at path, joined
\* in call order
RECURSIVE Sent(_, _)
Sent(h, path) ==
    IF h = <<>> THEN <<>>
    ELSE (IF HasText(Deltas[Head(h)], path) THEN Text(Deltas[Head(h)], path) ELSE <<>>)
            \o Sent(Tail(h), path)

\* the same for the field at path of the tool call at position p (1-based)
RECURSIVE SentTo(_, _, _)
SentTo(h, p, path) ==
    IF h = <<>> THEN <<>>
    ELSE (IF /\ HasIndex(Deltas[Head(h)])
             /\ IndexOf(Deltas[Head(h)]) = p - 1
             /\ HasText(FirstFragment(Deltas[Head(h)]), path)
          THEN Text(FirstFragment(Deltas[Head(h)]), path) ELSE <<>>)
            \o SentTo(Tail(h), p, path)

NoNegativeIndex(h) ==
    \A j \in 1..Len(h) : HasIndex(Deltas[h[j]]) => IndexOf(Deltas[h[j]]) >= 0

\* C2: after any sequence of merge_chunk calls that all returned, every string
\* field of the accumulator, top-level or nested, holds its initial text
\* followed by the fragments the deltas carried for it, in call order; so the
\* value depends only on the concatenation, not on where the stream was cut.
C2_FragmentsConcatenateInCallOrder ==
    merr = "none" =>
      /\ \A path \in TopPaths :
            HasText(acc0, path) =>
              Text(final_response, path) = Text(acc0, path) \o Sent(hist, path)
      /\ NoNegativeIndex(hist) =>
            \A p \in 1..Len(ToolCalls(acc0)) : \A path \in ElemPaths :
               HasText(ToolCalls(acc0)[p], path) =>
                 Text(ToolCalls(final_response)[p], path)
                    = Text(ToolCalls(acc0)[p], path) \o SentTo(hist, p, path)

\* "a", then "b", then a nested fragment: content reads "ab", as it does after
\* the single chunk "ab"
C2_Witness ==
    /\ merr = "none" /\ hist = <<2, 3, 9>>
    /\ Text(acc0, <<"content">>) = <<>>
    /\ Text(final_response, <<"content">>) = <<"a", "b">>
    /\ Text(ToolCalls(final_response)[1], <<"function", "arguments">>) = <<"y">>

\* no dict or list below v holds the key "index"
RECURSIVE NoIndexKey(_)
NoIndexKey(v) ==
    /\ v.t = "map" => ~HasKey(v, "index")
    /\ v.t \in {"map", "list"} =>
          \A j \in 1..Len(v.items) :
             NoIndexKey(IF v.t = "map" THEN v.items[j].v ELSE v.items[j])

\* after is before with the string fields of fragment appended, one or two
\* levels deep, and nothing else changed
MergedInto(before, after, fragment) ==
    /\ [j \in 1..Len(after.items) |-> after.items[j].k]
          = [j \in 1..Len(before.items) |-> before.items[j].k]
    /\ \A k \in Keys(before) :
          LET b == ValueAt(before, k)
              a == ValueAt(after, k)
              f == Descend(fragment, <<k>>)
          IN  CASE k # "index" /\ f.t = "str" -> a = Str(b.s \o f.s)
                [] k # "index" /\ f.t = "map" ->
                     /\ Keys(a) = Keys(b)
                     /\ \A k2 \in Keys(b) :
                           ValueAt(a, k2) =
                             IF Descend(f, <<k2>>).t = "str"
                             THEN Str(ValueAt(b, k2).s \o Descend(f, <<k2>>).s)
                             ELSE ValueAt(b, k2)
                [] OTHER -> a = b

\* C3: a merge_chunk call whose delta holds a non-empty tool_calls list merges
\* the first fragment, without its index, into the tool call the index names
\* and into no other; the list keeps its length over the whole session, no
\* "index" key is ever stored, and later fragments of the chunk are ignored.
C3_ToolCallMergedByIndex ==
    /\ Len(ToolCalls(final_response)) = Len(ToolCalls(acc0))
    /\ NoIndexKey(final_response)
    /\ (merr = "none" /\ ToolCalls(delta) # <<>> /\ HasIndex(delta)) =>
          /\ Cardinality({q \in 1..Len(ToolCalls(prev)) :
                            ToolCalls(final_response)[q] # ToolCalls(prev)[q]}) <= 1
          /\ IndexOf(delta) >= 0 =>
                /\ IndexOf(delta) < Len(ToolCalls(prev))
                /\ \A q \in 1..Len(ToolCalls(prev)) :
                      IF q = IndexOf(delta) + 1
                      THEN MergedInto(ToolCalls(prev)[q], ToolCalls(final_response)[q],
                                      FirstFragment(delta))
                      ELSE ToolCalls(final_response)[q] = ToolCalls(prev)[q]
          /\ \A k \in Keys(prev) \ (Keys(delta) \cup {"tool_calls"}) :
                ValueAt(final_response, k) = ValueAt(prev, k)
    /\ (acc0 = Accumulators[1] /\ hist = <<1>>) =>
          /\ merr = "none"
          /\ final_response =
                Map(<<E("content", Str(<<"H", "e", "l", "l", "o">>)),
                      E("tool_calls",
                        List(<<Map(<<E("name", Str(<<"a", "d", "d">>))>>)>>))>>)

\* a chunk of two fragments, then a fragment for index 1: each first fragment
\* went to its own tool call, the second fragment of the first chunk nowhere
C3_Witness ==
    /\ merr = "none" /\ hist = <<11, 10>>
    /\ Len(ToolCalls(final_response)) = 2
    /\ Text(ToolCalls(final_response)[1], <<"id">>) = <<"p">>
    /\ Text(ToolCalls(final_response)[2], <<"id">>) = <<"c">>
    /\ Text(ToolCalls(final_response)[2], <<"function", "arguments">>) = <<"z">>
    /\ ToolCalls(final_response)[1] = ToolCalls(prev)[1]

\* every top-level key of d, role aside, names a str field of v and carries a str
PlainStringDelta(v, d) ==
    \A k \in Keys(d) \ {"role"} :
       Descend(d, <<k>>).t = "str" /\ Descend(v, <<k>>).t = "str"

\* C4: the role of a delta never reaches the accumulator: an accumulator set
\* up without a role key never has one, one set up with a role keeps its
\* value, and a delta that is otherwise mergeable does not fail for its role.
C4_RoleNeverMerged ==
    /\ HasKey(final_response, "role") <=> HasKey(acc0, "role")
    /\ HasKey(acc0, "role") => ValueAt(final_response, "role") = ValueAt(acc0, "role")
    /\ (hist # <<>> /\ HasKey(delta, "role") /\ PlainStringDelta(prev, delta)) =>
          merr = "none"

\* a delta with a role and content, merged into an accumulator without a role
C4_Witness ==
    /\ hist # <<>> /\ merr = "none"
    /\ HasKey(delta, "role") /\ HasText(delta, <<"content">>)
    /\ ~HasKey(acc0, "role") /\ ~HasKey(final_response, "role")
    /\ final_response # prev

\* source carries a str for a key that target, a dict, lacks, at any depth
RECURSIVE StringForMissingKey(_, _)
StringForMissingKey(target, source) ==
    \E j \in 1..Len(source.items) :
       LET k == source.items[j].k
           v == source.items[j].v
       IN  \/ v.t = "str" /\ target.t = "map" /\ ~HasKey(target, k)
           \/ /\ v.t = "map" /\ target.t = "map" /\ HasKey(target, k)
              /\ StringForMissingKey(ValueAt(target, k), v)

\* the shapes merge_chunk does not support, for the accumulator v and delta d
UnsupportedShape(v, d) ==
    \/ StringForMissingKey(v, PopKey(d, "role"))
    \/ /\ HasIndex(d)
       /\ IndexOf(d) \notin 0..(Len(ToolCalls(v)) - 1)
    \/ /\ HasIndex(d)
       /\ IndexOf(d) \in 0..(Len(ToolCalls(v)) - 1)
       /\ StringForMissingKey(ToolCalls(v)[IndexOf(d) + 1],
                              PopKey(FirstFragment(d), "index"))

\* C6: merge_chunk never returns normally from an unsupported shape: a str for
\* a key the accumulator lacks, or a first fragment whose index is not in
\* 0..len-1, ends the call in an exception.
C6_UnsupportedShapeRaises ==
    (hist # <<>> /\ UnsupportedShape(prev, delta)) => merr # "none"

\* a and b hold the same keys in the same order, and so do their tool calls
SameKeys(a, b) ==
    /\ [j \in 1..Len(a.items) |-> a.items[j].k] = [j \in 1..Len(b.items) |-> b.items[j].k]
    /\ Len(ToolCalls(a)) = Len(ToolCalls(b))
    /\ \A q \in 1..Len(ToolCalls(a)) :
          [j \in 1..Len(ToolCalls(a)[q].items) |-> ToolCalls(a)[q].items[j].k]
            = [j \in 1..Len(ToolCalls(b)[q].items) |-> ToolCalls(b)[q].items[j].k]

\* C10: a delta value that is neither a str nor a dict changes nothing: the
\* accumulator's value at its key is the same after the call as before it and
\* no key is created for it, top-level or inside a tool call; so over the whole
\* session every number, boolean and null of the accumulator keeps its
\* initial value, replays included.
C10_OtherValuesLeftAlone ==
    /\ SameKeys(final_response, acc0)
    /\ \A k \in Keys(acc0) :
          ValueAt(acc0, k).t \in {"num", "bool", "null"} =>
             ValueAt(final_response, k) = ValueAt(acc0, k)
    /\ \A k \in Keys(delta) :
          (hist # <<>> /\ Descend(delta, <<k>>).t \notin {"str", "map"}
             /\ (k = "tool_calls" => ToolCalls(delta) = <<>>)) =>
             /\ HasKey(final_response, k) <=> HasKey(prev, k)
             /\ HasKey(prev, k) => ValueAt(final_response, k) = ValueAt(prev, k)

\* the delta of numbers, booleans, nulls and lists, merged twice
C10_Witness ==
    /\ merr = "none" /\ hist = <<6, 6>>
    /\ Descend(delta, <<"n">>) = Num(9) /\ Descend(acc0, <<"n">>) = Num(7)
    /\ Descend(delta, <<"extra">>) = Num(5)
    /\ final_response = acc0

----------------------------------------------------------------------------
(* Properties of parse_docstring (DocSpec) *)

\* no line of doc reads "args:" once trimmed and lowered
NoArgsLine(doc) ==
    \A j \in 1..Len(Split(doc, "\n")) :
       Lower(Strip(Split(doc, "\n")[j])) # ArgsMarker

\* C8: a docstring without a line that, trimmed and lowered, equals "args:"
\* parses to no parameter descriptions and to a summary of all its trimmed
\* lines, blank ones included, joined by single spaces and trimmed.
C8_NoArgsLineAllSummary ==
    (dpc = "done" /\ NoArgsLine(docstring)) =>
      /\ parsed.args = <<>>
      /\ parsed.summary =
            Strip(Join([j \in 1..Len(Split(docstring, "\n")) |->
                          Strip(Split(docstring, "\n")[j])], <<" ">>))

\* C9: once the Args marker has been seen, a pass of the loop adds nothing to
\* the summary lines; a further marker line (one that reads "args:") is
\* discarded; any other line with a colon stores the trimmed text after the
\* first colon under the trimmed text before it, replacing an earlier entry;
\* a non-empty line without a colon is appended, after one space, to the entry
\* of the parameter started last; any other line changes nothing.
C9_ArgsSectionLines ==
    [][(dpc = "loop" /\ li <= Len(lines) /\ in_args_section) =>
         LET line == Strip(lines[li])
         IN  /\ description' = description
             /\ in_args_section'
             /\ arg_descriptions' =
                   IF Lower(line) = ArgsMarker THEN arg_descriptions
                   ELSE IF Contains(line, ":")
                   THEN DictSet(arg_descriptions, Strip(Split1(line, ":")[1]),
                                Strip(Split1(line, ":")[2]))
                   ELSE IF line # <<>> /\ current_param # Null
                   THEN DictSet(arg_descriptions, current_param.s,
                                DictAt(arg_descriptions, current_param.s)
                                   \o <<" ">> \o line)
                   ELSE arg_descriptions]_vars

----------------------------------------------------------------------------
(* Properties of function_to_json (SchemaSpec) *)

Returned == spc = "done" /\ built.err = "none"
Properties == built.schema.function.parameters.properties
RequiredList == built.schema.function.parameters.required
NParams == Len(func.params)

\* the place of a name in the signature
ParamPos(name) == CHOOSE j \in 1..NParams : func.params[j].name = name

\* C1: the required list of a returned schema holds the names of the
\* parameters without a default, each once, in signature order, each a key of
\* properties; a parameter with a default is a key of properties and is not
\* in required.
C1_RequiredAreTheUndefaulted ==
    Returned =>
      /\ Len(RequiredList)
            = NParams - Cardinality({j \in 1..NParams : func.params[j].default})
      /\ \A r \in 1..Len(RequiredList) :
            /\ \E j \in 1..NParams :
                  func.params[j].name = RequiredList[r] /\ ~func.params[j].default
            /\ DictHas(Properties, RequiredList[r])
            /\ \A q \in 1..(r - 1) :
                  ParamPos(RequiredList[q]) < ParamPos(RequiredList[r])
      /\ \A j \in 1..NParams :
            /\ DictHas(Properties, func.params[j].name)
            /\ func.params[j].default =>
                  \A r \in 1..Len(RequiredList) : RequiredList[r] # func.params[j].name

\* x has a default and y has none: required is [y], properties holds both
C1_Witness ==
    /\ Returned /\ NParams = 2
    /\ func.params[1].default /\ ~func.params[2].default
    /\ RequiredList = <<func.params[2].name>>
    /\ Len(Properties) = 2

\* properties[name]["type"] of the j-th parameter
TypeOf(j) == DictAt(DictAt(Properties, func.params[j].name), "type")

C7_UnresolvedRaisesAnnotationError ==
    (spc = "done" /\ func.sig
       /\ \E j \in 1..NParams : func.params[j].ann = Unresolved) =>
      /\ built.err \notin {"none", "NameError"}
      /\ built.names_callable /\ built.names_param
      /\ built.schema = <<>>

====
